---- MODULE Spec2Model ----
(***************************************************************************)
(* Model of src/app.py: the expense parser (parse_expense) and the webhook *)
(* handler that sequences file resolution, download, transcription,       *)
(* parsing, the ledger append and the reply.                               *)
(*                                                                         *)
(* Text is a sequence of one-character strings.  The fixed literals of    *)
(* the reply templates are single elements of such a sequence (none of    *)
(* the literals that pass through .replace(".", ",") holds a '.').         *)
(* A parsed amount is kept in hundredths (32,90 is 3290): the parser      *)
(* accepts at most two decimals, and within the lengths modelled the float *)
(* of the source holds such a number exactly enough for "%.2f" to print it *)
(* back.                                                                    *)
(***************************************************************************)
EXTENDS Integers, Sequences, FiniteSets, Bags, TLC

VARIABLES
    pc,       \* per handler: where the request is in webhook()
    upd,      \* per handler: the update being handled
    text,     \* per handler: the local 'text' (message text or transcript)
    parsed,   \* per handler: the local 'parsed'
    tmp,      \* per handler: whether the temporary .ogg file exists
    exc,      \* per handler: the external call that raised, or "none"
    resp,     \* per handler: what the caller of the webhook got
    ledger,   \* the rows of the worksheet, in order
    calls,    \* per handler: its ws.append_row and sendMessage calls, in order
    clock,    \* datetime.now()
    handled   \* per handler: how many updates it has received

vars == <<pc, upd, text, parsed, tmp, exc, resp, ledger, calls, clock, handled>>

(***************************************************************************)
(* Bounds of the model.                                                    *)
(***************************************************************************)
MaxWords == 3
MaxUpdates == 2
NumHandlers == 2

Handlers == 1..NumHandlers

\* Python's None, as a record so that it compares with every other record.
None == [none |-> TRUE]

(***************************************************************************)
(* Characters and the str methods parse_expense uses.                      *)
(***************************************************************************)
Digits == <<"0", "1", "2", "3", "4", "5", "6", "7", "8", "9">>

UpperChars == <<"A", "B", "C", "D", "E", "F", "G", "H", "I", "J", "K", "L", "M",
                "N", "O", "P", "Q", "R", "S", "T", "U", "V", "W", "X", "Y", "Z">>

LowerChars == <<"a", "b", "c", "d", "e", "f", "g", "h", "i", "j", "k", "l", "m",
                "n", "o", "p", "q", "r", "s", "t", "u", "v", "w", "x", "y", "z">>

Whitespace == {" ", "\t", "\n"}

IsDigit(c) == \E i \in 1..Len(Digits) : Digits[i] = c

DigitVal(c) == (CHOOSE i \in 1..Len(Digits) : Digits[i] = c) - 1

IsSpace(c) == c \in Whitespace

\* str.lower(), one character
LowerChar(c) ==
    IF \E i \in 1..Len(UpperChars) : UpperChars[i] = c
    THEN LowerChars[CHOOSE i \in 1..Len(UpperChars) : UpperChars[i] = c]
    ELSE c

\* str.lower()
Lower(s) == [i \in 1..Len(s) |-> LowerChar(s[i])]

RECURSIVE LStrip(_)
LStrip(s) == IF s # <<>> /\ IsSpace(Head(s)) THEN LStrip(Tail(s)) ELSE s

RECURSIVE RStrip(_)
RStrip(s) ==
    IF s # <<>> /\ IsSpace(s[Len(s)]) THEN RStrip(SubSeq(s, 1, Len(s) - 1)) ELSE s

\* str.strip()
Strip(s) == RStrip(LStrip(s))

StartsWith(s, p) == Len(p) <= Len(s) /\ SubSeq(s, 1, Len(p)) = p

\* str.replace(old, new) for a non-empty old: left to right, non-overlapping,
\* the replaced text never rescanned
RECURSIVE Replace(_, _, _)
Replace(s, old, new) ==
    IF s = <<>> THEN <<>>
    ELSE IF StartsWith(s, old)
         THEN new \o Replace(SubSeq(s, Len(old) + 1, Len(s)), old, new)
         ELSE <<Head(s)>> \o Replace(Tail(s), old, new)

(***************************************************************************)
(* re.search(r"(\d+(?:[.,]\d{1,2})?)", t): the leftmost match, each        *)
(* quantifier greedy.  A match is [start, end) in Python's 0-based         *)
(* offsets, that is the characters t[start+1 .. end] here.                 *)
(***************************************************************************)
RECURSIVE DigitRunEnd(_, _)
\* the 1-based index of the last digit of the run of digits that starts at i
DigitRunEnd(t, i) ==
    IF i + 1 <= Len(t) /\ IsDigit(t[i + 1]) THEN DigitRunEnd(t, i + 1) ELSE i

\* the optional group (?:[.,]\d{1,2})? after the digits that end at index e
OptionalGroupEnd(t, e) ==
    IF e + 2 <= Len(t) /\ t[e + 1] \in {".", ","} /\ IsDigit(t[e + 2])
    THEN IF e + 3 <= Len(t) /\ IsDigit(t[e + 3]) THEN e + 3 ELSE e + 2
    ELSE e

RECURSIVE SearchFrom(_, _)
SearchFrom(t, i) ==
    IF i > Len(t) THEN None
    ELSE IF IsDigit(t[i])
         THEN [start |-> i - 1, end |-> OptionalGroupEnd(t, DigitRunEnd(t, i))]
         ELSE SearchFrom(t, i + 1)

ReSearchNumber(t) == SearchFrom(t, 1)

\* m.group(1)
Group(t, m) == SubSeq(t, m.start + 1, m.end)

(***************************************************************************)
(* float(raw_val), in hundredths; None where float() raises ValueError.    *)
(* The match never has more than two digits after its separator, so no     *)
(* longer fraction reaches float().                                        *)
(***************************************************************************)
RECURSIVE DigitsToInt(_)
DigitsToInt(s) ==
    IF s = <<>> THEN 0 ELSE 10 * DigitsToInt(SubSeq(s, 1, Len(s) - 1)) + DigitVal(s[Len(s)])

AllDigits(s) == \A i \in 1..Len(s) : IsDigit(s[i])

DotPositions(s) == {i \in 1..Len(s) : s[i] = "."}

Float(raw) ==
    LET dots == DotPositions(raw) IN
    IF Cardinality(dots) = 0
    THEN IF raw # <<>> /\ AllDigits(raw)
         THEN [none |-> FALSE, val |-> 100 * DigitsToInt(raw)]
         ELSE None
    ELSE IF Cardinality(dots) = 1
         THEN LET p == CHOOSE i \in dots : TRUE
                  ip == SubSeq(raw, 1, p - 1)
                  fp == SubSeq(raw, p + 1, Len(raw))
              IN IF /\ AllDigits(ip) /\ AllDigits(fp) /\ Len(ip) + Len(fp) > 0
                    /\ Len(fp) <= 2
                 THEN [none |-> FALSE,
                       val |-> 100 * DigitsToInt(ip)
                               + (IF Len(fp) = 1 THEN 10 * DigitsToInt(fp)
                                  ELSE DigitsToInt(fp))]
                 ELSE None
         ELSE None

\* line 62: m.group(1).replace(".", "").replace(",", ".")
RawVal(g) == Replace(Replace(g, <<".">>, <<>>), <<",">>, <<".">>)

(***************************************************************************)
(* re.sub(r"\s+", " ", rest), str.split() and " ".join(parts)              *)
(***************************************************************************)
RECURSIVE CollapseWs(_)
CollapseWs(s) ==
    IF s = <<>> THEN <<>>
    ELSE IF IsSpace(Head(s))
         THEN <<" ">> \o CollapseWs(LStrip(s))
         ELSE <<Head(s)>> \o CollapseWs(Tail(s))

RECURSIVE WordEnd(_, _)
\* the index of the last character of the word that starts at i
WordEnd(s, i) == IF i + 1 <= Len(s) /\ ~IsSpace(s[i + 1]) THEN WordEnd(s, i + 1) ELSE i

RECURSIVE Split(_)
Split(s) ==
    LET r == LStrip(s) IN
    IF r = <<>> THEN <<>>
    ELSE LET e == WordEnd(r, 1)
         IN <<SubSeq(r, 1, e)>> \o Split(SubSeq(r, e + 1, Len(r)))

RECURSIVE Join(_)
Join(parts) ==
    IF parts = <<>> THEN <<>>
    ELSE IF Len(parts) = 1 THEN parts[1]
         ELSE parts[1] \o <<" ">> \o Join(Tail(parts))

(***************************************************************************)
(* parse_expense                                                           *)
(***************************************************************************)
\* lines 54-55
Normalize(s) ==
    Strip(Replace(Replace(Strip(Lower(s)), <<"r", "$">>, <<>>),
                  <<"r", "e", "a", "i", "s">>, <<>>))

\* a removal by value, every occurrence: t.replace(m.group(1), "")
RemoveByValue(t, m) == Replace(t, Group(t, m), <<>>)

\* line 69, before the strip: t[:m.start()] + t[m.end():]
RemoveSpan(t, m) == SubSeq(t, 1, m.start) \o SubSeq(t, m.end + 1, Len(t))

\* lines 74-83
Fields(parts) ==
    IF Len(parts) >= 2
    THEN [descricao |-> Join(SubSeq(parts, 1, Len(parts) - 1)),
          conta |-> parts[Len(parts)]]
    ELSE IF Len(parts) = 1
         THEN [descricao |-> parts[1], conta |-> <<>>]
         ELSE [descricao |-> <<>>, conta |-> <<>>]

\* lines 62-85, for the match m of the normalized text t
ParseMatch(t, m) ==
    LET value == Float(RawVal(Group(t, m))) IN
    IF value = None THEN None
    ELSE LET rest == Strip(CollapseWs(Strip(RemoveSpan(t, m))))
             f == Fields(Split(rest))
         IN [none |-> FALSE, value |-> value.val,
             descricao |-> f.descricao, conta |-> f.conta]

\* a text without a number taken as an expense of 0 instead of a failure
parse_expense_default(s) ==
    LET t == Normalize(s)
        m == ReSearchNumber(t)
    IN IF m = None
       THEN [none |-> FALSE, value |-> 0, descricao |-> <<>>, conta |-> <<>>]
       ELSE ParseMatch(t, m)

\* lines 54-85
parse_expense(s) ==
    LET t == Normalize(s)
        m == ReSearchNumber(t)
    IN IF m = None THEN None ELSE ParseMatch(t, m)

(***************************************************************************)
(* f"{value:.2f}" of an amount kept in hundredths                          *)
(***************************************************************************)
RECURSIVE IntToStr(_)
IntToStr(n) ==
    IF n < 10 THEN <<Digits[n + 1]>>
    ELSE IntToStr(n \div 10) \o <<Digits[(n % 10) + 1]>>

Format2f(v) ==
    IntToStr(v \div 100) \o <<".">>
        \o <<Digits[((v \div 10) % 10) + 1], Digits[(v % 10) + 1]>>

(***************************************************************************)
(* Inbound updates.  kind is "message", "edited_message" or "none" (the    *)
(* update carries neither); voice and audio hold the attachment's file_id, *)
(* <<>> where .get("file_id") gives None; text is <<>> where absent.        *)
(***************************************************************************)
Update(kind, id, hasVoice, voice, hasAudio, audio, txt) ==
    [kind |-> kind, chat_id |-> 7, message_id |-> id,
     hasVoice |-> hasVoice, voice |-> voice,
     hasAudio |-> hasAudio, audio |-> audio, text |-> txt]

NoUpdate == Update("none", 0, FALSE, <<>>, FALSE, <<>>, <<>>)

\* lines 108-112
FileIdOf(u) ==
    IF u.hasVoice THEN u.voice
    ELSE IF u.hasAudio THEN u.audio
         ELSE <<>>

IsAudio(u) == u.kind # "none" /\ FileIdOf(u) # <<>>

(***************************************************************************)
(* The reply texts.  A literal of the source is one element, written in   *)
(* ASCII, with ' for the Markdown backquote.                               *)
(***************************************************************************)
LitExemplo == <<"Exemplo: '500 padaria nubank'">>

LitLancado == <<"Lancado R$ ">>

LitTranscricao == <<"Transcricao: '">>

\* line 120
TextFailText == <<"Nao entendi. ">> \o LitExemplo

\* line 130
NoFileText == <<"Nao consegui pegar o audio">>

\* line 147
EmptyText == <<"Transcrevi vazio. Tenta falar um pouco mais alto e sem muito ruido.">>

\* the reply of the text path, sent for a transcript
AudioFailTextNoTranscript(txt) == TextFailText

\* line 152
AudioFailText(txt) ==
    LitTranscricao \o txt \o <<"'", "\n">> \o <<"Nao entendi o formato. ">> \o LitExemplo

\* line 124
SuccessText(value, desc, conta) ==
    Replace(LitLancado \o Format2f(value) \o <<" ", "|", " ">> \o desc
                \o <<" ", "|", " ">> \o conta,
            <<".">>, <<",">>)

\* line 157
AudioSuccessText(txt, value, desc, conta) ==
    Replace(LitTranscricao \o txt \o <<"'", "\n">> \o LitLancado \o Format2f(value)
                \o <<" ", "|", " ">> \o desc \o <<" ", "|", " ">> \o conta,
            <<".">>, <<",">>)

\* lines 168-170
Payload(chat_id, txt, reply_to) ==
    IF reply_to # 0
    THEN [chat_id |-> chat_id, text |-> txt, parse_mode |-> "Markdown",
          reply_to_message_id |-> reply_to]
    ELSE [chat_id |-> chat_id, text |-> txt, parse_mode |-> "Markdown"]

(***************************************************************************)
(* add_row                                                                 *)
(***************************************************************************)
\* line 164: now.strftime("%Y-%m-%d %H:%M:%S UTC")
Strftime(now) == <<now, " UTC">>

\* the row with the normalized text in place of the text as received
RowNormalized(now, value, desc, conta, original) ==
    <<Strftime(now), Format2f(value), desc, conta, Normalize(original)>>

\* line 165, the list handed to ws.append_row
Row(now, value, desc, conta, original) ==
    <<Strftime(now), Format2f(value), desc, conta, original>>

\* a write to a fixed row of the sheet: the new row replaces the last one
LedgerOverwriteLast(rows, row) ==
    IF rows = <<>> THEN <<row>> ELSE SubSeq(rows, 1, Len(rows) - 1) \o <<row>>

\* line 165, ws.append_row: one request, the row goes to the tail of the sheet
LedgerAppend(rows, row) == Append(rows, row)

(***************************************************************************)
(* The branches of webhook()                                               *)
(***************************************************************************)
\* the success reply without the append
AfterParseNoAppend(p, audio) ==
    IF p = None
    THEN IF audio THEN "send_audio_fail" ELSE "send_text_fail"
    ELSE "send_ok"

\* lines 118-123 and 150-156
AfterParse(p, audio) ==
    IF p = None
    THEN IF audio THEN "send_audio_fail" ELSE "send_text_fail"
    ELSE "add_row"

\* lines 100-125, up to the first external call
Route(u) ==
    IF u.kind = "none"
    THEN [pc |-> "return", text |-> <<>>, parsed |-> None]
    ELSE IF FileIdOf(u) = <<>>
         THEN LET txt == Strip(u.text) IN
              IF txt = <<>>
              THEN [pc |-> "return", text |-> txt, parsed |-> None]
              ELSE LET p == parse_expense(txt)
                   IN [pc |-> AfterParse(p, FALSE), text |-> txt, parsed |-> p]
         ELSE [pc |-> "get_file", text |-> <<>>, parsed |-> None]

\* lines 129-133
AfterGetFile(info_ok) == IF info_ok THEN "open_tmp" ELSE "send_nofile"

\* a temporary file that outlives its block (delete=False)
WithExitLeak(exists) == exists

\* line 137: leaving the with block, normally or by an exception, deletes the file
WithExit(exists) == FALSE

\* line 90
transcribe_ogg_to_text(result) == Strip(result)

\* lines 146-155
AfterTranscribe(txt) ==
    IF txt = <<>>
    THEN [pc |-> "send_empty", parsed |-> None]
    ELSE LET p == parse_expense(txt)
         IN [pc |-> AfterParse(p, TRUE), parsed |-> p]

\* an exception caught and acknowledged
OutcomeSwallow(e) == "ok"

\* webhook() has no try/except: an exception of a call leaves the view (the
\* framework answers 500), every return is jsonify({"ok": True})
Outcome(e) == IF e = "none" THEN "ok" ELSE "error"

SendPcs == {"send_text_fail", "send_nofile", "send_empty", "send_audio_fail", "send_ok"}

\* the text of the send_message call made at pc
ReplyText(at, u, txt, p) ==
    CASE at = "send_text_fail" -> TextFailText
      [] at = "send_nofile" -> NoFileText
      [] at = "send_empty" -> EmptyText
      [] at = "send_audio_fail" -> AudioFailText(txt)
      [] at = "send_ok" ->
            IF IsAudio(u)
            THEN AudioSuccessText(txt, p.value, p.descricao, p.conta)
            ELSE SuccessText(p.value, p.descricao, p.conta)

(***************************************************************************)
(* The inputs drawn by the specifications.                                 *)
(***************************************************************************)
\* the words the parser's inputs are built of, joined by single spaces
Words ==
    {<<"5">>,
     <<"4", "2">>,
     <<"1", ".", "2", "3", "4", ",", "5", "6">>,
     <<"3", "2", ",", "9", "0">>,
     <<"a">>,
     <<"b">>,
     <<"R", "$">>,
     <<"r", "e", "a", "i", "s">>,
     <<"x", "5", "y">>,
     <<>>,
     <<"\t">>}

ParseInputs == {Join(ws) : ws \in UNION {[1..n -> Words] : n \in 0..MaxWords}}

\* the texts of the text messages
MsgTexts ==
    {<<"5", "0", "0", " ", "r", "e", "a", "i", "s", " ", "p", "a", "d", "a", "r", "i", "a", " ", "n", "u", "b", "a", "n", "k">>,
     <<"o", "i", " ", "t", "u", "d", "o", " ", "b", "e", "m">>,
     <<" ", "4", "2", " ">>,
     <<"5", " ", "a", ".", "b", " ", "c">>,
     <<"R", "$", " ", "1", "8", " ", "U", "b", "e", "r", " ", "p", "i", "x">>}

\* what the transcription gives for a recording
WhisperTexts ==
    {<<" ", "5", "0", "0", " ", "p", "a", "d", "a", "r", "i", "a", " ", "n", "u", "b", "a", "n", "k", ".">>,
     <<>>,
     <<"o", "i", " ", "t", "u", "d", "o", " ", "b", "e", "m">>,
     <<"3", "2", ",", "9", "0", " ", "m", "e", "r", "c", "a", "d", "o", " ", "i", "n", "t", "e", "r">>}

Updates(id) ==
    {Update("none", id, FALSE, <<>>, FALSE, <<>>, <<>>)}
        \cup {Update("message", id, FALSE, <<>>, FALSE, <<>>, txt) : txt \in MsgTexts \cup {<<>>}}
        \cup {Update("edited_message", id, FALSE, <<>>, FALSE, <<>>, <<"7", " ", "c", " ", "d">>),
              Update("message", id, TRUE, <<"v">>, FALSE, <<>>, <<>>),
              Update("message", id, FALSE, <<>>, TRUE, <<"a">>, <<>>),
              Update("message", id, TRUE, <<>>, TRUE, <<"a">>, <<"5", " ", "a", " ", "b">>)}

\* the updates of the concurrent requests
ConcUpdates(id) ==
    {Update("message", id, FALSE, <<>>, FALSE, <<>>, <<"5", " ", "a", " ", "b">>),
     Update("message", id, FALSE, <<>>, FALSE, <<>>, <<"o", "i">>),
     Update("message", id, TRUE, <<"v">>, FALSE, <<>>, <<>>)}

ConcWhisperTexts == {<<" ", "7", " ", "c", " ", "d">>, <<>>}

(***************************************************************************)
(* Initial state: every handler idle, the worksheet empty.                 *)
(***************************************************************************)
Init ==
    /\ pc = [h \in Handlers |-> "idle"]
    /\ upd = [h \in Handlers |-> NoUpdate]
    /\ text = [h \in Handlers |-> <<>>]
    /\ parsed = [h \in Handlers |-> None]
    /\ tmp = [h \in Handlers |-> FALSE]
    /\ exc = [h \in Handlers |-> "none"]
    /\ resp = [h \in Handlers |-> "none"]
    /\ ledger = <<>>
    /\ calls = [h \in Handlers |-> <<>>]
    /\ clock = 0
    /\ handled = [h \in Handlers |-> 0]

(***************************************************************************)
(* webhook(), one action per stretch between two external calls            *)
(***************************************************************************)
\* the request ends: by a return (e = "none") or by the exception of call e
End(h, e) ==
    /\ pc' = [pc EXCEPT ![h] = "done"]
    /\ exc' = [exc EXCEPT ![h] = e]
    /\ resp' = [resp EXCEPT ![h] = Outcome(e)]

\* lines 98-125: an update arrives and is routed
Webhook(h, U, limit) ==
    /\ pc[h] = "idle"
    /\ handled[h] < limit
    /\ \E u \in U :
         LET r == Route(u) IN
         /\ upd' = [upd EXCEPT ![h] = u]
         /\ text' = [text EXCEPT ![h] = r.text]
         /\ parsed' = [parsed EXCEPT ![h] = r.parsed]
         /\ IF r.pc = "return"
            THEN End(h, "none")
            ELSE /\ pc' = [pc EXCEPT ![h] = r.pc]
                 /\ UNCHANGED <<exc, resp>>
    /\ handled' = [handled EXCEPT ![h] = @ + 1]
    /\ UNCHANGED <<tmp, ledger, calls, clock>>

\* line 128: requests.get(getFile).json()
GetFile(h) ==
    /\ pc[h] = "get_file"
    /\ \/ End(h, "getFile")
       \/ \E info_ok \in BOOLEAN :
            /\ pc' = [pc EXCEPT ![h] = AfterGetFile(info_ok)]
            /\ UNCHANGED <<exc, resp>>
    /\ UNCHANGED <<upd, text, parsed, tmp, ledger, calls, clock, handled>>

\* line 137: the temporary file is created
OpenTmp(h) ==
    /\ pc[h] = "open_tmp"
    /\ tmp' = [tmp EXCEPT ![h] = TRUE]
    /\ pc' = [pc EXCEPT ![h] = "download"]
    /\ UNCHANGED <<upd, text, parsed, exc, resp, ledger, calls, clock, handled>>

\* lines 138-141: the download; requests.get or raise_for_status may raise
Download(h) ==
    /\ pc[h] = "download"
    /\ \/ /\ End(h, "download")
          /\ tmp' = [tmp EXCEPT ![h] = WithExit(tmp[h])]
       \/ /\ pc' = [pc EXCEPT ![h] = "transcribe"]
          /\ UNCHANGED <<tmp, exc, resp>>
    /\ UNCHANGED <<upd, text, parsed, ledger, calls, clock, handled>>

\* lines 144-155: the transcription, the end of the with block, the parse
Transcribe(h, W) ==
    /\ pc[h] = "transcribe"
    /\ tmp' = [tmp EXCEPT ![h] = WithExit(tmp[h])]
    /\ \/ /\ End(h, "transcribe")
          /\ UNCHANGED <<text, parsed>>
       \/ \E result \in W :
            LET txt == transcribe_ogg_to_text(result)
                r == AfterTranscribe(txt)
            IN /\ text' = [text EXCEPT ![h] = txt]
               /\ parsed' = [parsed EXCEPT ![h] = r.parsed]
               /\ pc' = [pc EXCEPT ![h] = r.pc]
               /\ UNCHANGED <<exc, resp>>
    /\ UNCHANGED <<upd, ledger, calls, clock, handled>>

\* lines 123, 156 and 160-165: add_row; ws.append_row may raise
AddRow(h) ==
    /\ pc[h] = "add_row"
    /\ LET p == parsed[h]
           row == Row(clock, p.value, p.descricao, p.conta, text[h])
       IN \/ /\ End(h, "append_row")
             /\ calls' = [calls EXCEPT ![h] = Append(@,
                    [id |-> upd[h].message_id, op |-> "append_row",
                     data |-> row, ok |-> FALSE])]
             /\ UNCHANGED ledger
          \/ /\ ledger' = LedgerAppend(ledger, row)
             /\ calls' = [calls EXCEPT ![h] = Append(@,
                    [id |-> upd[h].message_id, op |-> "append_row",
                     data |-> row, ok |-> TRUE])]
             /\ pc' = [pc EXCEPT ![h] = "send_ok"]
             /\ UNCHANGED <<exc, resp>>
    /\ clock' = clock + 1
    /\ UNCHANGED <<upd, text, parsed, tmp, handled>>

\* lines 167-171: send_message, then return jsonify({"ok": True});
\* requests.post may raise
SendMessage(h) ==
    /\ pc[h] \in SendPcs
    /\ LET payload == Payload(upd[h].chat_id,
                              ReplyText(pc[h], upd[h], text[h], parsed[h]),
                              upd[h].message_id)
       IN \/ /\ End(h, "sendMessage")
             /\ calls' = [calls EXCEPT ![h] = Append(@,
                    [id |-> upd[h].message_id, op |-> "sendMessage",
                     data |-> payload, ok |-> FALSE])]
          \/ /\ End(h, "none")
             /\ calls' = [calls EXCEPT ![h] = Append(@,
                    [id |-> upd[h].message_id, op |-> "sendMessage",
                     data |-> payload, ok |-> TRUE])]
    /\ UNCHANGED <<upd, text, parsed, tmp, ledger, clock, handled>>

\* the request is over; the worker takes the next one with fresh locals
Finish(h) ==
    /\ pc[h] = "done"
    /\ handled[h] < MaxUpdates
    /\ pc' = [pc EXCEPT ![h] = "idle"]
    /\ upd' = [upd EXCEPT ![h] = NoUpdate]
    /\ text' = [text EXCEPT ![h] = <<>>]
    /\ parsed' = [parsed EXCEPT ![h] = None]
    /\ exc' = [exc EXCEPT ![h] = "none"]
    /\ resp' = [resp EXCEPT ![h] = "none"]
    /\ UNCHANGED <<tmp, ledger, calls, clock, handled>>

(***************************************************************************)
(* Spec: one worker handles up to MaxUpdates updates, one after the other. *)
(***************************************************************************)
Next ==
    \/ Webhook(1, Updates(10 + handled[1] + 1), MaxUpdates)
    \/ GetFile(1)
    \/ OpenTmp(1)
    \/ Download(1)
    \/ Transcribe(1, WhisperTexts)
    \/ AddRow(1)
    \/ SendMessage(1)
    \/ Finish(1)

Spec == Init /\ [][Next]_vars

(***************************************************************************)
(* SpecConc: NumHandlers requests, one update each, handled concurrently,  *)
(* interleaved at their external calls.                                    *)
(***************************************************************************)
NextConc ==
    \E h \in Handlers :
        \/ Webhook(h, ConcUpdates(10 * h + 1), 1)
        \/ GetFile(h)
        \/ OpenTmp(h)
        \/ Download(h)
        \/ Transcribe(h, ConcWhisperTexts)
        \/ AddRow(h)
        \/ SendMessage(h)

SpecConc == Init /\ [][NextConc]_vars

(***************************************************************************)
(* SpecParse: parse_expense applied to each input of ParseInputs.          *)
(***************************************************************************)
InitParse ==
    /\ pc = [h \in Handlers |-> IF h = 1 THEN "parse" ELSE "idle"]
    /\ upd = [h \in Handlers |-> NoUpdate]
    /\ \E s \in ParseInputs : text = [h \in Handlers |-> IF h = 1 THEN s ELSE <<>>]
    /\ parsed = [h \in Handlers |-> None]
    /\ tmp = [h \in Handlers |-> FALSE]
    /\ exc = [h \in Handlers |-> "none"]
    /\ resp = [h \in Handlers |-> "none"]
    /\ ledger = <<>>
    /\ calls = [h \in Handlers |-> <<>>]
    /\ clock = 0
    /\ handled = [h \in Handlers |-> 0]

\* parsed = parse_expense(text)
Parse ==
    /\ pc[1] = "parse"
    /\ parsed' = [parsed EXCEPT ![1] = parse_expense(text[1])]
    /\ pc' = [pc EXCEPT ![1] = "parsed"]
    /\ UNCHANGED <<upd, text, tmp, exc, resp, ledger, calls, clock, handled>>

NextParse == Parse

SpecParse == InitParse /\ [][NextParse]_vars

(***************************************************************************)
(* What the claims are stated with: the tokens, the match and the amount   *)
(* of a text, each defined by what it is rather than by how parse_expense  *)
(* computes it.                                                            *)
(***************************************************************************)
\* the positions where a maximal run of non-whitespace characters starts
TokenStarts(s) == {i \in 1..Len(s) : ~IsSpace(s[i]) /\ (i = 1 \/ IsSpace(s[i - 1]))}

TokenEnd(s, i) ==
    CHOOSE k \in i..Len(s) :
        /\ \A j \in i..k : ~IsSpace(s[j])
        /\ k = Len(s) \/ IsSpace(s[k + 1])

\* the maximal runs of non-whitespace characters of s, in order
TokensOf(s) ==
    LET st == TokenStarts(s)
        nth(n) == CHOOSE i \in st : Cardinality({j \in st : j <= i}) = n
    IN [n \in 1..Cardinality(st) |-> SubSeq(s, nth(n), TokenEnd(s, nth(n)))]

DigitPositions(t) == {i \in 1..Len(t) : IsDigit(t[i])}

FirstDigit(t) == CHOOSE i \in DigitPositions(t) : \A j \in DigitPositions(t) : i <= j

\* the last digit of the digits that start at i
RunEnd(t, i) ==
    CHOOSE k \in i..Len(t) :
        /\ \A j \in i..k : IsDigit(t[j])
        /\ k = Len(t) \/ ~IsDigit(t[k + 1])

\* how many digits (at most 2) follow a '.' or ',' right after position e
DecimalsAfter(t, e) ==
    IF e + 2 <= Len(t) /\ t[e + 1] \in {".", ","} /\ IsDigit(t[e + 2])
    THEN IF e + 3 <= Len(t) /\ IsDigit(t[e + 3]) THEN 2 ELSE 1
    ELSE 0

\* the first numeric match of t: its first and last positions
FirstMatch(t) ==
    LET i == FirstDigit(t)
        e == RunEnd(t, i)
        d == DecimalsAfter(t, e)
    IN [first |-> i, last |-> IF d = 0 THEN e ELSE e + 1 + d]

\* the amount, in hundredths, of the match: '.' dropped, ',' the decimal mark
MatchAmount(t) ==
    LET i == FirstDigit(t)
        e == RunEnd(t, i)
        d == DecimalsAfter(t, e)
        int == DigitsToInt(SubSeq(t, i, e))
        dec == DigitsToInt(SubSeq(t, e + 2, e + 1 + d))
    IN IF d = 0 THEN 100 * int
       ELSE IF t[e + 1] = ","
            THEN 100 * int + (IF d = 1 THEN 10 * dec ELSE dec)
            ELSE 100 * ((IF d = 1 THEN 10 ELSE 100) * int + dec)

\* t without the characters first..last
Without(t, first, last) == SubSeq(t, 1, first - 1) \o SubSeq(t, last + 1, Len(t))

Contains(s, sub) == \E i \in 0..(Len(s) - Len(sub)) : SubSeq(s, i + 1, i + Len(sub)) = sub

\* desc is the tokens toks joined by single spaces
IsJoinOf(desc, toks) ==
    /\ TokensOf(desc) = toks
    /\ \A i \in 1..Len(desc) : IsSpace(desc[i]) =>
            /\ desc[i] = " "
            /\ 1 < i /\ i < Len(desc)
            /\ ~IsSpace(desc[i + 1])

(***************************************************************************)
(* C10: parse_expense takes the value from the first numeric match of the  *)
(* normalized text and removes only that span (a later equal number        *)
(* stays); the tokens that remain, those before the number included, give: *)
(* none -> description "" and account ""; one -> description that token,   *)
(* account ""; two or more -> account the last token, description the      *)
(* others in order joined by single spaces.  The input "42" gives          *)
(* description "" and account "".  A text without a digit does not parse.  *)
(***************************************************************************)
C10_Shape(s, r) ==
    LET t == Normalize(s) IN
    IF DigitPositions(t) = {} THEN r = None
    ELSE LET m == FirstMatch(t)
             toks == TokensOf(Without(t, m.first, m.last))
             n == Len(toks)
         IN /\ r # None
            /\ r.value = MatchAmount(t)
            /\ n = 0 => r.descricao = <<>> /\ r.conta = <<>>
            /\ n = 1 => r.descricao = toks[1] /\ r.conta = <<>>
            /\ n >= 2 => /\ r.conta = toks[n]
                         /\ IsJoinOf(r.descricao, SubSeq(toks, 1, n - 1))

C10_FirstMatchAndTokens ==
    pc[1] = "parsed" =>
        /\ C10_Shape(text[1], parsed[1])
        /\ text[1] = <<"4", "2">> =>
              parsed[1] = [none |-> FALSE, value |-> 4200,
                           descricao |-> <<>>, conta |-> <<>>]

\* "a 5 5" parsed: the token before the number and the later equal number stay
C10_Witness ==
    /\ pc[1] = "parsed"
    /\ text[1] = <<"a", " ", "5", " ", "5">>
    /\ parsed[1] = [none |-> FALSE, value |-> 500,
                    descricao |-> <<"a">>, conta |-> <<"5">>]

(***************************************************************************)
(* C6: for an input that holds a decimal number followed by at least two   *)
(* tokens, parse_expense gives that number, read with ',' as the decimal   *)
(* mark and '.' as the thousands separator (1.234,56 is 1234.56), as the   *)
(* value, and the last token of the input as the account.  Stated here for *)
(* the plainest such inputs: already normalized, the number first, written *)
(* as digits in groups of three with an optional ',' and one or two        *)
(* decimals, and no other digit in the input.                              *)
(***************************************************************************)
CommaPositions(w) == {i \in 1..Len(w) : w[i] = ","}

\* digits, or groups of three digits after a first group of one to three
IsGroupedInt(w) ==
    /\ w # <<>>
    /\ \A i \in 1..Len(w) : IsDigit(w[i]) \/ w[i] = "."
    /\ IsDigit(w[1])
    /\ \A i \in 1..Len(w) : w[i] = "." =>
            /\ i + 3 <= Len(w)
            /\ \A j \in (i + 1)..(i + 3) : IsDigit(w[j])
            /\ i + 3 = Len(w) \/ w[i + 4] = "."
    /\ DotPositions(w) # {} => \E i \in 2..4 : w[i] = "."

IsBrNumber(w) ==
    IF CommaPositions(w) = {} THEN IsGroupedInt(w)
    ELSE /\ Cardinality(CommaPositions(w)) = 1
         /\ LET c == CHOOSE i \in CommaPositions(w) : TRUE
                fp == SubSeq(w, c + 1, Len(w))
            IN /\ IsGroupedInt(SubSeq(w, 1, c - 1))
               /\ Len(fp) \in {1, 2}
               /\ AllDigits(fp)

\* the digits of w, in order
DigitsOf(w) == SelectSeq(w, IsDigit)

\* the amount of a number so written, in hundredths
BrValue(w) ==
    IF CommaPositions(w) = {} THEN 100 * DigitsToInt(DigitsOf(w))
    ELSE LET c == CHOOSE i \in CommaPositions(w) : TRUE
             fp == SubSeq(w, c + 1, Len(w))
         IN 100 * DigitsToInt(DigitsOf(SubSeq(w, 1, c - 1)))
                + (IF Len(fp) = 1 THEN 10 * DigitsToInt(fp) ELSE DigitsToInt(fp))

C6_NumberThenTokens(s) ==
    LET toks == TokensOf(s) IN
    /\ Normalize(s) = s
    /\ Len(toks) >= 3
    /\ IsBrNumber(toks[1])
    /\ \A k \in 2..Len(toks) : DigitPositions(toks[k]) = {}

C6_Original ==
    (pc[1] = "parsed" /\ C6_NumberThenTokens(text[1])) =>
        /\ parsed[1] # None
        /\ parsed[1].value = BrValue(TokensOf(text[1])[1])
        /\ parsed[1].conta = TokensOf(text[1])[Len(TokensOf(text[1]))]

(***************************************************************************)
(* The calls of a handler for one update.                                  *)
(***************************************************************************)
AppendIdx(h, id) ==
    {i \in DOMAIN calls[h] : calls[h][i].id = id /\ calls[h][i].op = "append_row"}

SendIdx(h, id) ==
    {i \in DOMAIN calls[h] : calls[h][i].id = id /\ calls[h][i].op = "sendMessage"}

IsSuccessText(txt) == \E i \in 1..Len(txt) : txt[i] = LitLancado[1]

SuccessIdx(h, id) == {i \in SendIdx(h, id) : IsSuccessText(calls[h][i].data.text)}

IdsOf(h) == {calls[h][i].id : i \in DOMAIN calls[h]}

\* the append_row calls of handler h that returned, in order
OkAppends(h) ==
    LET ok == {i \in DOMAIN calls[h] : calls[h][i].op = "append_row" /\ calls[h][i].ok}
        nth(n) == CHOOSE i \in ok : Cardinality({j \in ok : j <= i}) = n
    IN [n \in 1..Cardinality(ok) |-> calls[h][nth(n)].data]

\* the text holds an amount: a digit is left after normalization
HasAmount(s) == DigitPositions(Normalize(s)) # {}

\* the handling of the update ended after its text or transcript failed to parse
ParseFailed(h) == pc[h] = "done" /\ text[h] # <<>> /\ parsed[h] = None

\* the text of the one reply sent for the update being handled
ReplyOf(h) == calls[h][CHOOSE i \in SendIdx(h, upd[h].message_id) : TRUE].data.text

(***************************************************************************)
(* C1 as claimed: the handling of every update ends by returning the       *)
(* acknowledgment {ok: true}, also when the file resolution, the download, *)
(* the transcription, the ledger append or the reply send fails.           *)
(***************************************************************************)
C1_Original == \A h \in Handlers : pc[h] = "done" => resp[h] = "ok"

(***************************************************************************)
(* C1 as amended: the handling of an update ends with the acknowledgment   *)
(* exactly when no external call raised (no message, unrecognized message, *)
(* file resolution reported not-ok, empty transcript, parse failure,       *)
(* success); when the getFile request, the download, the transcription,    *)
(* the ledger append or the reply send raises, the exception leaves the    *)
(* handler and the caller gets the framework's error, not the              *)
(* acknowledgment.                                                         *)
(***************************************************************************)
C1_AckUnlessRaised ==
    \A h \in Handlers :
        /\ pc[h] = "done" =>
              /\ resp[h] \in {"ok", "error"}
              /\ resp[h] = "ok" <=> exc[h] = "none"
              /\ exc[h] \in {"none", "getFile", "download", "transcribe",
                             "append_row", "sendMessage"}
        /\ pc[h] # "done" => resp[h] = "none" /\ exc[h] = "none"

\* the download raised: the request ended without the acknowledgment
C1_Witness ==
    \E h \in Handlers : pc[h] = "done" /\ exc[h] = "download" /\ resp[h] = "error"

(***************************************************************************)
(* C2: a row is appended while an update is handled only if parse_expense  *)
(* succeeded on its text or transcript (the text holds an amount); with no *)
(* message, an unrecognized message, a file-resolution failure, an empty   *)
(* transcript or a parse failure the ledger is left as it was: the ledger  *)
(* is exactly the rows of the appends made for parsed updates.             *)
(***************************************************************************)
C2_AppendOnlyIfParsed ==
    /\ ledger = OkAppends(1)
    /\ \A h \in Handlers :
          /\ \A i \in DOMAIN calls[h] :
                calls[h][i].op = "append_row" => HasAmount(calls[h][i].data[5])
          /\ AppendIdx(h, upd[h].message_id) # {} =>
                /\ upd[h].kind # "none"
                /\ parsed[h] # None
                /\ text[h] # <<>>
                /\ HasAmount(text[h])
          /\ (pc[h] = "done" /\ parsed[h] = None) =>
                AppendIdx(h, upd[h].message_id) = {}

\* a second update failed to parse and the ledger still holds the first's row only
C2_Witness ==
    /\ ParseFailed(1)
    /\ handled[1] = 2
    /\ Len(ledger) = 1
    /\ SendIdx(1, upd[1].message_id) # {}

(***************************************************************************)
(* C3: when parse_expense succeeds for an update the handler makes exactly *)
(* one ledger append for it and then, the append done, sends exactly one   *)
(* success reply; the success reply is never sent before the append and    *)
(* never when the append did not complete.                                 *)
(***************************************************************************)
C3_AppendThenReply ==
    \A h \in Handlers :
        /\ \A id \in IdsOf(h) :
              /\ Cardinality(AppendIdx(h, id)) <= 1
              /\ Cardinality(SuccessIdx(h, id)) <= 1
              /\ \A r \in SuccessIdx(h, id) :
                    \E a \in AppendIdx(h, id) : a < r /\ calls[h][a].ok
        /\ (pc[h] = "done" /\ parsed[h] # None) =>
              LET id == upd[h].message_id IN
              /\ Cardinality(AppendIdx(h, id)) = 1
              /\ \A a \in AppendIdx(h, id) :
                    /\ calls[h][a].ok => Cardinality(SuccessIdx(h, id)) = 1
                    /\ ~calls[h][a].ok => SendIdx(h, id) = {}
        /\ pc[h] = "send_ok" =>
              \E a \in AppendIdx(h, upd[h].message_id) : calls[h][a].ok

\* a parsed update handled to its end: the append, then the success reply
C3_Witness ==
    \E h \in Handlers :
        /\ pc[h] = "done" /\ parsed[h] # None /\ resp[h] = "ok"
        /\ \E a \in AppendIdx(h, upd[h].message_id) :
              \E r \in SuccessIdx(h, upd[h].message_id) : a < r
        /\ ledger # <<>>

(***************************************************************************)
(* C4 as claimed: whenever parse_expense fails, for a text message as well *)
(* as for a transcribed voice or audio message, the handler sends a reply  *)
(* that includes the text that failed to parse together with a usage       *)
(* example, and writes no record.                                          *)
(***************************************************************************)
C4_Original ==
    \A h \in Handlers :
        ParseFailed(h) =>
            /\ Cardinality(SendIdx(h, upd[h].message_id)) = 1
            /\ Contains(ReplyOf(h), text[h])
            /\ Contains(ReplyOf(h), LitExemplo)
            /\ AppendIdx(h, upd[h].message_id) = {}

(***************************************************************************)
(* C4 as amended: whenever parse_expense fails the handler sends one reply *)
(* with a usage example and writes no record; for a transcribed voice or   *)
(* audio message the reply also includes the transcript, for a text        *)
(* message it is a fixed text that does not quote the message.             *)
(***************************************************************************)
C4_FailureReply ==
    \A h \in Handlers :
        ParseFailed(h) =>
            /\ Cardinality(SendIdx(h, upd[h].message_id)) = 1
            /\ Contains(ReplyOf(h), LitExemplo)
            /\ AppendIdx(h, upd[h].message_id) = {}
            /\ IsAudio(upd[h]) => Contains(ReplyOf(h), text[h])
            /\ ~IsAudio(upd[h]) => ReplyOf(h) = TextFailText

\* a transcript that failed to parse, answered with the transcript and the example
C4_Witness ==
    \E h \in Handlers :
        /\ ParseFailed(h) /\ IsAudio(upd[h])
        /\ SendIdx(h, upd[h].message_id) # {}
        /\ Contains(ReplyOf(h), text[h])

(***************************************************************************)
(* C5: the temporary audio file exists only during the download and the    *)
(* transcription and is deleted on every way out of them, a failed         *)
(* download and a failed transcription included: no handling of an update  *)
(* ends with the file still there, and the parse, the ledger append and    *)
(* the reply happen only once it is gone.                                  *)
(***************************************************************************)
C5_TempFileScoped ==
    \A h \in Handlers :
        /\ tmp[h] => pc[h] \in {"download", "transcribe"}
        /\ tmp[h] => parsed[h] = None /\ text[h] = <<>>
        /\ tmp[h] => AppendIdx(h, upd[h].message_id) = {} /\ SendIdx(h, upd[h].message_id) = {}
        /\ pc[h] \in {"done", "idle", "add_row"} \cup SendPcs => ~tmp[h]

\* the transcription raised and the file is gone
C5_Witness ==
    \E h \in Handlers : pc[h] = "done" /\ exc[h] = "transcribe" /\ ~tmp[h]

(***************************************************************************)
(* C7: for an update whose parse succeeds with (value, description,        *)
(* account) the one appended row is [UTC timestamp, value with exactly two *)
(* decimals, description, account, rawText]: description and account are   *)
(* the parser's outputs, rawText is the text as the handler read it (the   *)
(* message text, or the transcript, trimmed of surrounding whitespace but  *)
(* neither lower-cased nor stripped of currency words).  The text update   *)
(* "500 reais padaria nubank" yields exactly one append, with value        *)
(* "500.00", description "padaria" and account "nubank".                   *)
(***************************************************************************)
\* digits, a '.', two digits
IsTwoDecimals(v) ==
    /\ Len(v) >= 4
    /\ v[Len(v) - 2] = "."
    /\ AllDigits(SubSeq(v, 1, Len(v) - 3))
    /\ AllDigits(SubSeq(v, Len(v) - 1, Len(v)))

\* the amount such a string denotes, in hundredths
AmountOf(v) ==
    100 * DigitsToInt(SubSeq(v, 1, Len(v) - 3)) + DigitsToInt(SubSeq(v, Len(v) - 1, Len(v)))

\* the text the handler read for the update it is handling
RawText(h) == IF IsAudio(upd[h]) THEN text[h] ELSE Strip(upd[h].text)

ExampleText ==
    <<"5", "0", "0", " ", "r", "e", "a", "i", "s", " ",
      "p", "a", "d", "a", "r", "i", "a", " ", "n", "u", "b", "a", "n", "k">>

IsOwnRow(h, row) ==
    /\ Len(row) = 5
    /\ row[1][2] = " UTC"
    /\ row[1][1] \in 0..(clock - 1)
    /\ IsTwoDecimals(row[2])
    /\ AmountOf(row[2]) = parsed[h].value
    /\ row[3] = parsed[h].descricao
    /\ row[4] = parsed[h].conta
    /\ row[5] = RawText(h)
    /\ parsed[h] = parse_expense(row[5])

FormatBR(v) ==
    IntToStr(v \div 100) \o <<",">>
        \o <<Digits[((v \div 10) % 10) + 1], Digits[(v % 10) + 1]>>

C8_Original ==
    \A h \in Handlers :
        \A r \in SuccessIdx(h, upd[h].message_id) :
            LET reply == calls[h][r].data.text IN
            /\ Contains(reply, FormatBR(parsed[h].value))
            /\ Contains(reply, parsed[h].descricao)
            /\ Contains(reply, parsed[h].conta)
            /\ IsAudio(upd[h]) => Contains(reply, text[h])

(***************************************************************************)
(* C9: with any number of updates handled concurrently, in any             *)
(* interleaving, the ledger is append-only (a row once in the ledger is    *)
(* never modified, moved or removed) and holds exactly one row for each    *)
(* update whose parse succeeded and whose append completed, none lost and  *)
(* none twice, each row with that update's own value, description, account *)
(* and raw text.                                                           *)
(***************************************************************************)
BagOfSeq(q) ==
    [x \in {q[i] : i \in DOMAIN q} |-> Cardinality({i \in DOMAIN q : q[i] = x})]

RECURSIVE CompletedRows(_)
\* the rows of the appends that completed, of handlers 1..n
CompletedRows(n) ==
    IF n = 0 THEN EmptyBag ELSE CompletedRows(n - 1) (+) BagOfSeq(OkAppends(n))

C9_OneRowPerAppend ==
    /\ BagOfSeq(ledger) = CompletedRows(NumHandlers)
    /\ \A h \in Handlers :
          /\ Len(OkAppends(h)) <= 1
          /\ \A i \in 1..Len(OkAppends(h)) : IsOwnRow(h, OkAppends(h)[i])
          /\ (pc[h] = "done" /\ parsed[h] # None /\ exc[h] # "append_row") =>
                Len(OkAppends(h)) = 1

C9_AppendOnly ==
    /\ Len(ledger') >= Len(ledger)
    /\ SubSeq(ledger', 1, Len(ledger)) = ledger

C9_LedgerAppendOnly == [](C9_OneRowPerAppend) /\ [][C9_AppendOnly]_vars

\* every request is over and two of them appended, the later handler first
C9_Witness ==
    /\ \A h \in Handlers : pc[h] = "done"
    /\ Len(ledger) = 2
    /\ ledger[1] = OkAppends(2)[1]
    /\ ledger[2] = OkAppends(1)[1]

====
